---- MODULE Spec2Model ----
(***************************************************************************)
(* Model of envf (src/main.rs): a launcher that parses its arguments,      *)
(* merges the scalar fields of the TOML files named by -f into one         *)
(* environment map, and replaces itself with the command.                  *)
(*                                                                         *)
(* Strings that the code inspects character by character (the arguments:   *)
(* `arg == "-f"`, `arg.starts_with("-f=")`, `arg[3..]`) are sequences of   *)
(* one-character strings.  Field names and field values are TLA+ strings.  *)
(***************************************************************************)
EXTENDS Integers, Sequences, FiniteSets, TLC

(***************************************************************************)
(* Bounds of the model.                                                    *)
(***************************************************************************)
MaxArgs == 4

(***************************************************************************)
(* Argument tokens.                                                        *)
(***************************************************************************)
TokH == <<"-", "h">>
TokHelp == <<"-", "-", "h", "e", "l", "p">>
TokS == <<"-", "s">>
TokF == <<"-", "f">>
TokFEq == <<"-", "f", "=">>
TokFEqA == <<"-", "f", "=", "a">>
TokFEqB == <<"-", "f", "=", "b">>
TokA == <<"a">>
TokB == <<"b">>
TokDashDash == <<"-", "-">>

Tokens == {TokH, TokHelp, TokS, TokF, TokFEqA, TokFEqB, TokA, TokDashDash}

\* The argument vectors of at most MaxArgs tokens.
ArgVectors == UNION {[1..n -> Tokens] : n \in 0..MaxArgs}

(***************************************************************************)
(* String helpers used by parse_args.                                      *)
(***************************************************************************)
\* str::starts_with
StartsWith(arg, prefix) ==
    /\ Len(arg) >= Len(prefix)
    /\ SubSeq(arg, 1, Len(prefix)) = prefix

\* arg[3..]: the bytes of arg from offset 3 on
FileEqPathOffByOne(arg) == SubSeq(arg, 3, Len(arg))
FileEqPath(arg) == SubSeq(arg, 4, Len(arg))

\* arg == "-h" || arg == "--help"
IsHelpShortOnly(arg) == arg = TokH
IsHelp(arg) == arg = TokH \/ arg = TokHelp

\* The argument matches one of the flag rules of the scanning loop.
IsFlag(arg) == IsHelp(arg) \/ arg = TokS \/ arg = TokF \/ StartsWith(arg, TokFEq)

(***************************************************************************)
(* Document values (toml::Value) and scalar coercion.                      *)
(***************************************************************************)
StrVal(s) == [type |-> "String", s |-> s]
IntVal(n) == [type |-> "Integer", n |-> n]
BoolVal(b) == [type |-> "Boolean", b |-> b]
\* A float is given in tenths, a datetime is a local date.
FloatVal(t) == [type |-> "Float", tenths |-> t]
DatetimeVal(y, m, d) == [type |-> "Datetime", year |-> y, month |-> m, day |-> d]
ArrayVal == [type |-> "Array"]
TableVal == [type |-> "Table"]

None == [some |-> FALSE]
Some(s) == [some |-> TRUE, s |-> s]

Digit(d) == CASE d = 0 -> "0" [] d = 1 -> "1" [] d = 2 -> "2" [] d = 3 -> "3"
              [] d = 4 -> "4" [] d = 5 -> "5" [] d = 6 -> "6" [] d = 7 -> "7"
              [] d = 8 -> "8" [] d = 9 -> "9"

RECURSIVE NatToString(_)
NatToString(n) == IF n < 10 THEN Digit(n)
                  ELSE NatToString(n \div 10) \o Digit(n % 10)

\* format!("{}", x) for an i64
IntToStringNoSign(n) == NatToString(IF n < 0 THEN 0 - n ELSE n)
IntToString(n) == IF n < 0 THEN "-" \o NatToString(0 - n) ELSE NatToString(n)

\* format!("{}", x) for a bool
BoolToString(b) == IF b THEN "true" ELSE "false"

\* format!("{}", x) for an f64 of at most one decimal: the shortest text
\* that reads back as x, without ".0" for a whole number.
FloatToString(t) ==
    LET a == IF t < 0 THEN 0 - t ELSE t
        sign == IF t < 0 THEN "-" ELSE ""
    IN  IF a % 10 = 0 THEN sign \o NatToString(a \div 10)
        ELSE sign \o NatToString(a \div 10) \o "." \o Digit(a % 10)

\* {:02} and {:04}
Pad2(n) == IF n < 10 THEN "0" \o NatToString(n) ELSE NatToString(n)
Pad4(n) == IF n < 10 THEN "000" \o NatToString(n)
           ELSE IF n < 100 THEN "00" \o NatToString(n)
           ELSE IF n < 1000 THEN "0" \o NatToString(n)
           ELSE NatToString(n)

\* format!("{}", x) for a toml Datetime that is a local date
DatetimeToString(y, m, d) == Pad4(y) \o "-" \o Pad2(m) \o "-" \o Pad2(d)

stringify(v) ==
    CASE v.type = "String" -> Some(v.s)
      [] v.type = "Integer" -> Some(IntToString(v.n))
      [] v.type = "Float" -> Some(FloatToString(v.tenths))
      [] v.type = "Boolean" -> Some(BoolToString(v.b))
      [] v.type = "Datetime" -> Some(DatetimeToString(v.year, v.month, v.day))
      [] OTHER -> None

(***************************************************************************)
(* Files.  What read_env_file can find at a path: an unreadable file, a    *)
(* body that is no TOML, a document whose top level is no table, or a      *)
(* table from field names to values.  A toml Table iterates in key order   *)
(* (KeyOrder).                                                             *)
(***************************************************************************)
KeyOrder == <<"", "X", "Y">>

\* The field names of the files of Contents.
Keys == {"X", "Y"}

\* The values a field may have in the files of the model.
FieldValues(k) ==
    IF k = "X" THEN {StrVal("1"), StrVal("2"), ArrayVal}
    ELSE {StrVal("1"), ArrayVal}

AllFieldValues == UNION {FieldValues(k) : k \in Keys}

Tables ==
    UNION {{t \in [d -> AllFieldValues] : \A k \in d : t[k] \in FieldValues(k)} :
             d \in SUBSET Keys}

Unread == [kind |-> "unread"]
Unreadable == [kind |-> "unreadable"]
InvalidDoc == [kind |-> "invalid"]
NonTable == [kind |-> "nontable"]
TableDoc(t) == [kind |-> "table", table |-> t]

Contents == {Unreadable, InvalidDoc, NonTable} \cup {TableDoc(t) : t \in Tables}

\* A wider choice of documents, for the one file at path a: every type of
\* value, a string with the character U+0000 (written "a\u0000b" in the
\* file), and the empty field name (written "" in the file).
MaxInt == 12

NulChar == "\\0"
WithNul == "a" \o NulChar \o "b"

DocValues ==
    {StrVal("1"), StrVal(""), StrVal(WithNul), BoolVal(TRUE), BoolVal(FALSE),
     FloatVal(0 - 15), FloatVal(0), FloatVal(10), FloatVal(25),
     DatetimeVal(1979, 5, 27), DatetimeVal(987, 12, 1), ArrayVal, TableVal}
        \cup {IntVal(n) : n \in (0 - MaxInt)..MaxInt}

DocPairValues == {StrVal("1"), ArrayVal, TableVal}

DocTables ==
    [{"X"} -> DocValues] \cup [{""} -> DocPairValues]
        \cup [{"", "X"} -> DocPairValues] \cup [{"X", "Y"} -> DocPairValues]

DocContents == {TableDoc(t) : t \in DocTables}

\* The paths at which there may be a file.
FilePaths == {TokA, TokB}

\* Every string that parse_args can push on files.
Paths == Tokens \cup {FileEqPath(t) : t \in {u \in Tokens : StartsWith(u, TokFEq)}}

(***************************************************************************)
(* EnvMap and EnvMapOrError.                                               *)
(***************************************************************************)
EmptyMap == [k \in {} |-> ""]

\* n = m.clone(); n.insert(k, s)
Insert(m, k, s) == [x \in DOMAIN m \cup {k} |-> IF x = k THEN s ELSE m[x]]

Ok(m) == [ok |-> TRUE, map |-> m]
Err(msg) == [ok |-> FALSE, msg |-> msg]

ReadError == [err |-> "Could not read contents"]
ParseError == [err |-> "Invalid TOML"]
FormatError == [err |-> "Unexpected format"]
CoercionError(k, v) ==
    [err |-> "can't be converted into a string", key |-> k, value |-> v]

add_fieldSkipping(z, k, v) ==
    IF ~z.ok THEN z
    ELSE LET s == stringify(v)
         IN  IF s.some THEN Ok(Insert(z.map, k, s.s)) ELSE z
add_fieldLastError(z, k, v) ==
    LET s == stringify(v)
    IN  IF ~s.some THEN Err(CoercionError(k, v))
        ELSE IF ~z.ok THEN z
        ELSE Ok(Insert(z.map, k, s.s))
add_field(z, k, v) ==
    IF ~z.ok THEN z
    ELSE LET s == stringify(v)
         IN  IF s.some THEN Ok(Insert(z.map, k, s.s))
             ELSE Err(CoercionError(k, v))

\* table.iter().fold(Ok(EnvMap::new()), add_field), from the i-th key on
RECURSIVE FoldFields(_, _, _)
FoldFields(z, table, i) ==
    IF i > Len(KeyOrder) THEN z
    ELSE IF KeyOrder[i] \in DOMAIN table
         THEN FoldFields(add_field(z, KeyOrder[i], table[KeyOrder[i]]), table, i + 1)
         ELSE FoldFields(z, table, i + 1)

table_into_env_map(table) == FoldFields(Ok(EmptyMap), table, 1)

read_env_fileLenient(content) ==
    CASE content.kind = "unreadable" -> Err(ReadError)
      [] content.kind = "invalid" -> Err(ParseError)
      [] content.kind = "nontable" -> Ok(EmptyMap)
      [] content.kind = "table" -> table_into_env_map(content.table)
read_env_file(content) ==
    CASE content.kind = "unreadable" -> Err(ReadError)
      [] content.kind = "invalid" -> Err(ParseError)
      [] content.kind = "nontable" -> Err(FormatError)
      [] content.kind = "table" -> table_into_env_map(content.table)

\* for (k, v) in m { map.insert(k, v); }
MergeIntoKeepOld(map, m) ==
    [x \in DOMAIN map \cup DOMAIN m |-> IF x \in DOMAIN map THEN map[x] ELSE m[x]]
MergeInto(map, m) ==
    [x \in DOMAIN map \cup DOMAIN m |-> IF x \in DOMAIN m THEN m[x] ELSE map[x]]

(***************************************************************************)
(* ArgParseResult, and parse_args as a function of the argument vector.    *)
(***************************************************************************)
Pending == [kind |-> "Pending", msg |-> ""]
Help == [kind |-> "Help", msg |-> ""]
ParseErr(msg) == [kind |-> "Err", msg |-> msg]
ConfigResult == [kind |-> "Config", msg |-> ""]

TrailingF == "Trailing -f"
NoCommand == "No command to execute was provided."

\* Lines 118-127: what is left of the arguments is the command.
CollectedAlwaysConfig(a, p, fl, sl) ==
    [result |-> ConfigResult, files |-> fl, silent |-> sl,
     command |-> SubSeq(a, p, Len(a))]
Collected(a, p, fl, sl) ==
    LET cmd == SubSeq(a, p, Len(a))
    IN  IF Len(cmd) = 0
        THEN [result |-> ParseErr(NoCommand), files |-> <<>>, silent |-> FALSE,
              command |-> <<>>]
        ELSE [result |-> ConfigResult, files |-> fl, silent |-> sl, command |-> cmd]

RECURSIVE ParseFrom(_, _, _, _)
ParseFrom(a, p, fl, sl) ==
    IF p > Len(a) THEN Collected(a, p, fl, sl)
    ELSE IF IsHelp(a[p])
         THEN [result |-> Help, files |-> <<>>, silent |-> FALSE, command |-> <<>>]
    ELSE IF a[p] = TokS THEN ParseFrom(a, p + 1, fl, TRUE)
    ELSE IF a[p] = TokF
         THEN IF p + 1 > Len(a)
              THEN [result |-> ParseErr(TrailingF), files |-> <<>>,
                    silent |-> FALSE, command |-> <<>>]
              ELSE ParseFrom(a, p + 2, Append(fl, a[p + 1]), sl)
    ELSE IF StartsWith(a[p], TokFEq)
         THEN ParseFrom(a, p + 1, Append(fl, FileEqPath(a[p])), sl)
    ELSE Collected(a, p, fl, sl)

parse_args(a) == ParseFrom(a, 1, <<>>, FALSE)

(***************************************************************************)
(* Diagnostics (stderr), one element per eprintln! or print_usage().       *)
(***************************************************************************)
UsageText == [kind |-> "USAGE"]
BlankLine == [kind |-> "BLANK"]
ErrorLine(msg) == [kind |-> "ERROR", msg |-> msg]
WarningLine(path, msg) == [kind |-> "WARNING", path |-> path, msg |-> msg]

ExecError == "Couldn't execute command"

\* The environment the launcher is started in: X is also a field name of
\* the files, H is not.
InheritedEnv == [n \in {"X", "H"} |-> IF n = "X" THEN "0" ELSE "h"]

(***************************************************************************)
(* State.                                                                  *)
(***************************************************************************)
VARIABLES
    args,      \* env::args().skip(1)
    pos,       \* index of the argument the peekable iterator yields next
    files,     \* parse_args: files, then config.files
    silent,    \* parse_args: silent, then config.silent
    command,   \* config.command
    result,    \* the ArgParseResult returned to main (Pending before)
    pc,        \* where main stands
    fs,        \* what has been found at each path read so far
    idx,       \* number of paths of config.files processed by the loop
    map,       \* main: map
    diag,      \* the lines written to stderr
    execCall,  \* <<>>, or the one call of exec() with its arguments
    exit,      \* <<>>, or the code given to process::exit
    reads,     \* the paths given to fs::read_to_string, in order
    environ,   \* the environment of the launcher's process
    image      \* <<>>, or the program, arguments and environment of the
               \* image that has replaced the launcher

vars == <<args, pos, files, silent, command, result, pc, fs, idx, map, diag,
          execCall, exit, reads, environ, image>>

Init ==
    /\ args \in ArgVectors
    /\ pos = 1
    /\ files = <<>>
    /\ silent = FALSE
    /\ command = <<>>
    /\ result = Pending
    /\ pc = "scan"
    /\ fs = [p \in Paths |-> Unread]
    /\ idx = 0
    /\ map = EmptyMap
    /\ diag = <<>>
    /\ execCall = <<>>
    /\ exit = <<>>
    /\ reads = <<>>
    /\ environ = InheritedEnv
    /\ image = <<>>

mainVars == <<fs, idx, map, diag, execCall, exit, reads, environ, image>>

\* The launcher started with few arguments, the file at path a holding one
\* of the documents of DocContents.
MaxDocArgs == 2

DocArgVectors == UNION {[1..n -> Tokens] : n \in 0..MaxDocArgs}

InitDocs ==
    /\ args \in DocArgVectors
    /\ pos = 1
    /\ files = <<>>
    /\ silent = FALSE
    /\ command = <<>>
    /\ result = Pending
    /\ pc = "scan"
    /\ fs \in {[p \in Paths |-> IF p = TokA THEN c ELSE Unread] : c \in DocContents}
    /\ idx = 0
    /\ map = EmptyMap
    /\ diag = <<>>
    /\ execCall = <<>>
    /\ exit = <<>>
    /\ reads = <<>>
    /\ environ = InheritedEnv
    /\ image = <<>>

(***************************************************************************)
(* parse_args, one action per branch of an iteration of the loop.          *)
(***************************************************************************)
Scanning == pc = "scan" /\ pos <= Len(args)

\* Line 97: no argument left.
ScanEnd ==
    /\ pc = "scan"
    /\ pos > Len(args)
    /\ pc' = "collect"
    /\ UNCHANGED <<args, pos, files, silent, command, result, mainVars>>

\* Lines 99-100.
ScanHelp ==
    /\ Scanning
    /\ IsHelp(args[pos])
    /\ result' = Help
    /\ pc' = "dispatch"
    /\ UNCHANGED <<args, pos, files, silent, command, mainVars>>

ScanSilentBeforeFilesOnly ==
    /\ Scanning
    /\ ~IsHelp(args[pos])
    /\ args[pos] = TokS
    /\ silent' = (silent \/ files = <<>>)
    /\ pos' = pos + 1
    /\ UNCHANGED <<args, files, command, result, pc, mainVars>>

\* Lines 101-102, 116.
ScanSilentNotConsuming ==
    /\ Scanning
    /\ ~IsHelp(args[pos])
    /\ args[pos] = TokS
    /\ silent' = TRUE
    /\ pos' = pos
    /\ UNCHANGED <<args, files, command, result, pc, mainVars>>
ScanSilent ==
    /\ Scanning
    /\ ~IsHelp(args[pos])
    /\ args[pos] = TokS
    /\ silent' = TRUE
    /\ pos' = pos + 1
    /\ UNCHANGED <<args, files, command, result, pc, mainVars>>

ScanFileTrailingBreaking ==
    /\ Scanning
    /\ ~IsHelp(args[pos])
    /\ args[pos] # TokS
    /\ args[pos] = TokF
    /\ pos + 1 > Len(args)
    /\ pos' = pos + 1
    /\ pc' = "collect"
    /\ UNCHANGED <<args, files, silent, command, result, mainVars>>

\* Lines 103-106: -f is the last argument.
ScanFileTrailing ==
    /\ Scanning
    /\ ~IsHelp(args[pos])
    /\ args[pos] # TokS
    /\ args[pos] = TokF
    /\ pos + 1 > Len(args)
    /\ pos' = pos + 1
    /\ result' = ParseErr(TrailingF)
    /\ pc' = "dispatch"
    /\ UNCHANGED <<args, files, silent, command, mainVars>>

\* Lines 103-107, 116: -f and the argument after it.
ScanFilePathPeeking ==
    /\ Scanning
    /\ ~IsHelp(args[pos])
    /\ args[pos] # TokS
    /\ args[pos] = TokF
    /\ pos + 1 <= Len(args)
    /\ files' = Append(files, args[pos + 1])
    /\ pos' = pos + 1
    /\ UNCHANGED <<args, silent, command, result, pc, mainVars>>
ScanFilePath ==
    /\ Scanning
    /\ ~IsHelp(args[pos])
    /\ args[pos] # TokS
    /\ args[pos] = TokF
    /\ pos + 1 <= Len(args)
    /\ files' = Append(files, args[pos + 1])
    /\ pos' = pos + 2
    /\ UNCHANGED <<args, silent, command, result, pc, mainVars>>

\* Lines 109-110, 116.
ScanFileEq ==
    /\ Scanning
    /\ ~IsHelp(args[pos])
    /\ args[pos] # TokS
    /\ args[pos] # TokF
    /\ StartsWith(args[pos], TokFEq)
    /\ files' = Append(files, FileEqPath(args[pos]))
    /\ pos' = pos + 1
    /\ UNCHANGED <<args, silent, command, result, pc, mainVars>>

ScanCommandDashDashSeparator ==
    /\ Scanning
    /\ ~IsFlag(args[pos])
    /\ pos' = IF args[pos] = TokDashDash THEN pos + 1 ELSE pos
    /\ pc' = "collect"
    /\ UNCHANGED <<args, files, silent, command, result, mainVars>>

ScanCommandSkipping ==
    /\ Scanning
    /\ ~IsFlag(args[pos])
    /\ pos' = pos + 1
    /\ UNCHANGED <<args, files, silent, command, result, pc, mainVars>>

\* Lines 111-112: any other argument ends the scan, unconsumed.
ScanCommand ==
    /\ Scanning
    /\ ~IsFlag(args[pos])
    /\ pc' = "collect"
    /\ UNCHANGED <<args, pos, files, silent, command, result, mainVars>>

\* Lines 118-127.  pos keeps the index at which the scan stopped.
Collect ==
    /\ pc = "collect"
    /\ LET c == Collected(args, pos, files, silent)
       IN  /\ result' = c.result
           /\ command' = c.command
    /\ pc' = "dispatch"
    /\ UNCHANGED <<args, pos, files, silent, mainVars>>

(***************************************************************************)
(* main.                                                                   *)
(***************************************************************************)
parseVars == <<args, pos, files, silent, command, result>>

\* Lines 53-56.
MainHelp ==
    /\ pc = "dispatch"
    /\ result.kind = "Help"
    /\ diag' = Append(diag, UsageText)
    /\ exit' = <<0>>
    /\ pc' = "exited"
    /\ UNCHANGED <<parseVars, fs, idx, map, execCall, reads, environ, image>>

\* Line 57, error_with_usage (lines 34-39).
MainUsageError ==
    /\ pc = "dispatch"
    /\ result.kind = "Err"
    /\ diag' = diag \o <<ErrorLine(result.msg), BlankLine, UsageText>>
    /\ exit' = <<1>>
    /\ pc' = "exited"
    /\ UNCHANGED <<parseVars, fs, idx, map, execCall, reads, environ, image>>

\* Lines 58-60.
MainConfigAlsoOnError ==
    /\ pc = "dispatch"
    /\ result.kind # "Help"
    /\ map' = EmptyMap
    /\ idx' = 0
    /\ pc' = "merge"
    /\ UNCHANGED <<parseVars, fs, diag, execCall, exit, reads, environ, image>>
MainConfig ==
    /\ pc = "dispatch"
    /\ result.kind = "Config"
    /\ map' = EmptyMap
    /\ idx' = 0
    /\ pc' = "merge"
    /\ UNCHANGED <<parseVars, fs, diag, execCall, exit, reads, environ, image>>

\* What fs::read_to_string and the parser find at a path: no file anywhere
\* but at the paths of FilePaths; there, anything at the first read of the
\* path and the same thing at a later read.
Found(path, c) ==
    IF fs[path] # Unread THEN c = fs[path]
    ELSE IF path \in FilePaths THEN c \in Contents
    ELSE c = Unreadable

\* Lines 64-66.
Warn(sl, path, msg) == IF ~sl THEN Append(diag, WarningLine(path, msg)) ELSE diag

LoadFailAborting ==
    /\ pc = "merge"
    /\ idx < Len(files)
    /\ LET path == files[idx + 1]
       IN  \E c \in Contents \cup {fs[path]} :
             /\ Found(path, c)
             /\ ~read_env_file(c).ok
             /\ fs' = [fs EXCEPT ![path] = c]
             /\ diag' = Append(diag, ErrorLine(read_env_file(c).msg))
    /\ idx' = idx + 1
    /\ reads' = Append(reads, files[idx + 1])
    /\ exit' = <<1>>
    /\ pc' = "exited"
    /\ UNCHANGED <<parseVars, map, execCall, environ, image>>

\* Lines 61-67: one iteration of the loop, read_env_file returns Err.
LoadFail ==
    /\ pc = "merge"
    /\ idx < Len(files)
    /\ LET path == files[idx + 1]
       IN  \E c \in Contents \cup {fs[path]} :
             /\ Found(path, c)
             /\ ~read_env_file(c).ok
             /\ fs' = [fs EXCEPT ![path] = c]
             /\ diag' = Warn(silent, path, read_env_file(c).msg)
    /\ idx' = idx + 1
    /\ reads' = Append(reads, files[idx + 1])
    /\ UNCHANGED <<parseVars, pc, map, execCall, exit, environ, image>>

\* Lines 61-62, 68-72: one iteration of the loop, read_env_file returns Ok.
LoadOk ==
    /\ pc = "merge"
    /\ idx < Len(files)
    /\ LET path == files[idx + 1]
       IN  \E c \in Contents \cup {fs[path]} :
             /\ Found(path, c)
             /\ read_env_file(c).ok
             /\ fs' = [fs EXCEPT ![path] = c]
             /\ map' = MergeInto(map, read_env_file(c).map)
    /\ idx' = idx + 1
    /\ reads' = Append(reads, files[idx + 1])
    /\ UNCHANGED <<parseVars, pc, diag, execCall, exit, environ, image>>

\* Command::new(&config.command[0]).args(config.command.iter().skip(1)).envs(&map)
ExecRequest == [program |-> command[1], args |-> Tail(command), envs |-> map]

\* The environment of the new image: the launcher's own, with the variables
\* given to envs() added or overriding (there is no env_clear()).
ChildEnvCleared(inherited, m) == m
ChildEnv(inherited, m) ==
    [n \in DOMAIN inherited \cup DOMAIN m |->
        IF n \in DOMAIN m THEN m[n] ELSE inherited[n]]

\* Lines 75-78: exec() replaces the process image and does not return.
ExecOkEarly ==
    /\ pc = "merge"
    /\ idx <= Len(files)
    /\ execCall' = <<ExecRequest>>
    /\ image' = <<[program |-> ExecRequest.program, args |-> ExecRequest.args,
                   env |-> ChildEnv(environ, ExecRequest.envs)]>>
    /\ pc' = "replaced"
    /\ UNCHANGED <<parseVars, fs, idx, map, diag, exit, reads, environ>>
ExecOk ==
    /\ pc = "merge"
    /\ idx = Len(files)
    /\ execCall' = <<ExecRequest>>
    /\ image' = <<[program |-> ExecRequest.program, args |-> ExecRequest.args,
                   env |-> ChildEnv(environ, ExecRequest.envs)]>>
    /\ pc' = "replaced"
    /\ UNCHANGED <<parseVars, fs, idx, map, diag, exit, reads, environ>>

ExecFailWithUsage ==
    /\ pc = "merge"
    /\ idx = Len(files)
    /\ execCall' = <<ExecRequest>>
    /\ diag' = diag \o <<ErrorLine(ExecError), BlankLine, UsageText>>
    /\ exit' = <<1>>
    /\ pc' = "exited"
    /\ UNCHANGED <<parseVars, fs, idx, map, reads, environ, image>>

\* Lines 75-82: exec() returns an error; error_without_usage (lines 29-32).
ExecFail ==
    /\ pc = "merge"
    /\ idx = Len(files)
    /\ execCall' = <<ExecRequest>>
    /\ diag' = Append(diag, ErrorLine(ExecError))
    /\ exit' = <<1>>
    /\ pc' = "exited"
    /\ UNCHANGED <<parseVars, fs, idx, map, reads, environ, image>>

Next ==
    \/ ScanEnd
    \/ ScanHelp
    \/ ScanSilent
    \/ ScanFileTrailing
    \/ ScanFilePath
    \/ ScanFileEq
    \/ ScanCommand
    \/ Collect
    \/ MainHelp
    \/ MainUsageError
    \/ MainConfig
    \/ LoadFail
    \/ LoadOk
    \/ ExecOk
    \/ ExecFail

Spec == Init /\ [][Next]_vars

\* main is one sequential thread: a step that can be taken is taken.
FairSpec == Spec /\ WF_vars(Next)

\* The same program, started as InitDocs says.
SpecDocs == InitDocs /\ [][Next]_vars

(***************************************************************************)
(* Vocabulary of the properties.                                           *)
(***************************************************************************)
ScalarTypes == {"String", "Integer", "Float", "Boolean", "Datetime"}

\* The document found at a path has a field whose value is no scalar.
HasUnrepresentable(c) ==
    /\ c.kind = "table"
    /\ \E k \in DOMAIN c.table : c.table[k].type \notin ScalarTypes

\* The document found at a path is a table of scalars.
Loadable(c) ==
    /\ c.kind = "table"
    /\ \A k \in DOMAIN c.table : c.table[k].type \in ScalarTypes

\* The i-th path of files has been processed and its file was loadable.
LoadedAt(i) == i \in 1..idx /\ Loadable(fs[files[i]])

\* The processed, loadable files that define the key k.
Definers(k) == {i \in 1..idx : LoadedAt(i) /\ k \in DOMAIN fs[files[i]].table}

MaxOf(S) == CHOOSE i \in S : \A j \in S : j <= i

ConfigReturned == result.kind = "Config" /\ pc \in {"merge", "replaced", "exited"}

ExecAttempted == execCall # <<>>

Terminated == pc \in {"replaced", "exited"}

X1 == [k \in {"X"} |-> StrVal("1")]
X2 == [k \in {"X"} |-> StrVal("2")]
X1Y1 == [k \in {"X", "Y"} |-> StrVal("1")]
X1YArray == [k \in {"X", "Y"} |-> IF k = "X" THEN StrVal("1") ELSE ArrayVal]

(***************************************************************************)
(* C1: the map built by the merge loop is the last-write-wins fold of the  *)
(* files processed so far, a file that fails to load counting as empty: a  *)
(* key is in the map iff some loaded file defines it, and its value is the *)
(* one given by the last loaded file that defines it.                      *)
(***************************************************************************)
C1_LastWriteWins ==
    ConfigReturned =>
        /\ DOMAIN map \subseteq Keys
        /\ \A k \in Keys :
              IF Definers(k) = {} THEN k \notin DOMAIN map
              ELSE /\ k \in DOMAIN map
                   /\ map[k] = stringify(fs[files[MaxOf(Definers(k))]].table[k]).s

\* exec() is called after two loadable files: the second overrides X and
\* leaves the Y of the first alone.
C1_Witness ==
    /\ pc = "replaced"
    /\ files = <<TokA, TokB>>
    /\ fs[TokA] = TableDoc(X1Y1)
    /\ fs[TokB] = TableDoc(X2)
    /\ map = [k \in {"X", "Y"} |-> IF k = "X" THEN "2" ELSE "1"]

(***************************************************************************)
(* C2: loading is atomic per file: an iteration of the merge loop over a   *)
(* file with a non-representable field leaves the map as it was, also when *)
(* fields before the failing one were coerced.                             *)
(***************************************************************************)
C2_AtomicPerFile ==
    [][(pc = "merge" /\ idx < Len(files) /\ idx' = idx + 1
          /\ HasUnrepresentable(fs'[files[idx + 1]]))
        => (map' = map /\ ~read_env_file(fs'[files[idx + 1]]).ok)]_vars

\* X = "2" is in the map; then a file with X = "1" and an array Y was
\* processed and X is still "2".
C2_Witness ==
    /\ idx = 2
    /\ files = <<TokA, TokB>>
    /\ fs[TokA] = TableDoc(X2)
    /\ fs[TokB] = TableDoc(X1YArray)
    /\ map = [k \in {"X"} |-> "2"]

(***************************************************************************)
(* C3: once parse_args has returned a Config, the run reaches the call of  *)
(* exec(), whatever files fail.                                            *)
(***************************************************************************)
C3_ReachesExec == (result.kind = "Config") ~> ExecAttempted

\* exec() was called after three loads failed, in two different ways.
C3_Witness ==
    /\ ExecAttempted
    /\ Len(files) = 3
    /\ \A i \in 1..3 : ~Loadable(fs[files[i]])
    /\ fs[files[1]] = Unreadable
    /\ HasUnrepresentable(fs[files[2]])
    /\ map = EmptyMap

(***************************************************************************)
(* The command-line grammar, stated on the argument vector alone.  A flag  *)
(* prefix is a sequence of units `-s`, `-f=PATH` and `-f PATH` (PATH being *)
(* any argument).                                                          *)
(***************************************************************************)
HelpTokens == {TokH, TokHelp}

HasFEqPrefix(t) == Len(t) >= 3 /\ t[1] = "-" /\ t[2] = "f" /\ t[3] = "="

LooksLikeFlag(t) == t \in HelpTokens \/ t = TokS \/ t = TokF \/ HasFEqPrefix(t)

\* The first n arguments of a are a flag prefix.
RECURSIVE IsFlagPrefix(_, _)
IsFlagPrefix(a, n) ==
    \/ n = 0
    \/ /\ n >= 1 /\ n <= Len(a)
       /\ a[n] = TokS \/ HasFEqPrefix(a[n])
       /\ IsFlagPrefix(a, n - 1)
    \/ /\ n >= 2 /\ n <= Len(a)
       /\ a[n - 1] = TokF
       /\ IsFlagPrefix(a, n - 2)

\* The scan meets argument i of a in flag-scanning state.
ScannedAt(a, i) == i \in 1..Len(a) /\ IsFlagPrefix(a, i - 1)

HelpReached(a) == \E i \in 1..Len(a) : ScannedAt(a, i) /\ a[i] \in HelpTokens

SilentGiven(a) == \E i \in 1..Len(a) : ScannedAt(a, i) /\ a[i] = TokS

TrailingFReached(a) == Len(a) >= 1 /\ ScannedAt(a, Len(a)) /\ a[Len(a)] = TokF

CommandAt(a, i) ==
    i \in 1..Len(a) /\ ~LooksLikeFlag(a[i]) /\ IsFlagPrefix(a, i - 1)

ParseReturned == pc \notin {"scan", "collect"}

IsWarning(l) == l.kind = "WARNING"
IsUsage(l) == l.kind = "USAGE"

\* The warnings due for the first n paths of files, in order.
RECURSIVE ExpectedWarnings(_)
ExpectedWarnings(n) ==
    IF n = 0 THEN <<>>
    ELSE IF Loadable(fs[files[n]]) THEN ExpectedWarnings(n - 1)
         ELSE Append(ExpectedWarnings(n - 1),
                     WarningLine(files[n], read_env_file(fs[files[n]]).msg))

\* `-f PATH` at i replaced by `-f=PATH`, and `-f=PATH` at i by `-f PATH`.
Joined(a, i) ==
    SubSeq(a, 1, i - 1) \o <<TokFEq \o a[i + 1]>> \o SubSeq(a, i + 2, Len(a))
Split(a, i) ==
    SubSeq(a, 1, i - 1) \o <<TokF, SubSeq(a[i], 4, Len(a[i]))>>
        \o SubSeq(a, i + 1, Len(a))

(***************************************************************************)
(* C4: the first argument that the scan meets and that is no flag ends the *)
(* scan for good: the command is that argument and all later ones,         *)
(* verbatim, and the later ones change neither files nor silent nor the    *)
(* outcome.                                                                *)
(***************************************************************************)
C4_CommandVerbatim ==
    \A i \in 1..Len(args) :
        CommandAt(args, i) =>
            /\ pc = "scan" => pos <= i
            /\ pc = "collect" => pos = i
            /\ ParseReturned =>
                  /\ result.kind = "Config"
                  /\ command = SubSeq(args, i, Len(args))
                  /\ pc = "dispatch" =>
                        /\ files = parse_args(SubSeq(args, 1, i)).files
                        /\ silent = parse_args(SubSeq(args, 1, i)).silent

\* A command followed by -s, and exec() called with both, silent unset.
C4_Witness ==
    /\ pc = "replaced"
    /\ Len(args) = 4
    /\ args[1] = TokFEqA
    /\ command = <<TokDashDash, TokS, TokHelp>>
    /\ ~silent
    /\ files = <<TokA>>
    /\ execCall[1].args = <<TokS, TokHelp>>

(***************************************************************************)
(* C5: when the scan meets -h or --help, the outcome is Help, whatever     *)
(* flags come before and whatever follows; usage is printed and the exit   *)
(* code is 0.                                                              *)
(***************************************************************************)
C5_HelpWins ==
    HelpReached(args) =>
        /\ pc \in {"scan", "dispatch", "exited"}
        /\ pc # "scan" => result = Help
        /\ pc = "exited" => exit = <<0>> /\ diag = <<UsageText>>
        /\ execCall = <<>>
        /\ fs = [p \in Paths |-> Unread]

\* Help after -s and a file, with no command after it.
C5_Witness ==
    /\ pc = "exited"
    /\ result = Help
    /\ silent
    /\ files = <<TokA>>
    /\ args[Len(args)] = TokHelp
    /\ exit = <<0>>

(***************************************************************************)
(* C6: replacing a `-f PATH` of the flag prefix by `-f=PATH`, or a         *)
(* `-f=PATH` by `-f PATH`, does not change what parse_args returns, and    *)
(* the scan of the model returns what parse_args returns.                  *)
(***************************************************************************)
C6_FileFormsEquivalent ==
    /\ pc = "scan" =>
          \A i \in pos..Len(args) :
              /\ (ScannedAt(args, i) /\ args[i] = TokF /\ i < Len(args))
                    => parse_args(Joined(args, i)) = parse_args(args)
              /\ (ScannedAt(args, i) /\ HasFEqPrefix(args[i]))
                    => parse_args(Split(args, i)) = parse_args(args)
    /\ pc = "dispatch" =>
          /\ result = parse_args(args).result
          /\ result.kind = "Config" =>
                /\ files = parse_args(args).files
                /\ silent = parse_args(args).silent
                /\ command = parse_args(args).command

\* Both forms in one invocation, the paths in order of occurrence.
C6_Witness ==
    /\ pc = "dispatch"
    /\ result.kind = "Config"
    /\ args[1] = TokF /\ args[2] = TokA /\ args[3] = TokFEqB
    /\ files = <<TokA, TokB>>
    /\ parse_args(Joined(args, 1)).files = <<TokA, TokB>>

(***************************************************************************)
(* C7, as stated: `envf -s --` ends in the "no command" usage error with   *)
(* exit code 1, produces no Config and does not call exec().               *)
(***************************************************************************)
C7_DashDashIsNoCommand ==
    (args = <<TokS, TokDashDash>> /\ ParseReturned) =>
        /\ result = ParseErr(NoCommand)
        /\ execCall = <<>>
        /\ Terminated => pc = "exited" /\ exit = <<1>>

(***************************************************************************)
(* C7, amended: `envf -s --` yields a Config with silent set and the       *)
(* command `--`; exec() is called with it, and the run exits with code 1   *)
(* and no usage text only if exec() fails.  The "no command" usage error   *)
(* with exit code 1 is the outcome of `envf -s`.                           *)
(***************************************************************************)
C7_DashDashIsTheCommand ==
    /\ (args = <<TokS, TokDashDash>> /\ ParseReturned) =>
          /\ result.kind = "Config"
          /\ silent
          /\ files = <<>>
          /\ command = <<TokDashDash>>
          /\ Terminated =>
                /\ execCall = <<[program |-> TokDashDash, args |-> <<>>,
                                 envs |-> EmptyMap]>>
                /\ pc = "exited" =>
                      exit = <<1>> /\ diag = <<ErrorLine(ExecError)>>
    /\ (args = <<TokS>> /\ ParseReturned) =>
          /\ result = ParseErr(NoCommand)
          /\ execCall = <<>>
          /\ Terminated =>
                /\ pc = "exited"
                /\ exit = <<1>>
                /\ diag = <<ErrorLine(NoCommand), BlankLine, UsageText>>

\* `envf -s --` has called exec() with `--` and exec() has failed.
C7_Witness ==
    /\ args = <<TokS, TokDashDash>>
    /\ pc = "exited"
    /\ execCall # <<>>
    /\ execCall[1].program = TokDashDash
    /\ exit = <<1>>

(***************************************************************************)
(* C8: warnings depend on -s being given in the flag prefix, not on where: *)
(* with -s no warning is written and exec() is still called; without -s    *)
(* the warnings are one `path ignored: error` per failing load, in the     *)
(* order of files, and none for a file that loads.                         *)
(***************************************************************************)
C8_SilenceAnywhere ==
    ConfigReturned =>
        /\ silent = SilentGiven(args)
        /\ SelectSeq(diag, IsWarning) =
              IF SilentGiven(args) THEN <<>> ELSE ExpectedWarnings(idx)
        /\ ~ExecAttempted => diag = SelectSeq(diag, IsWarning)
        /\ Terminated => ExecAttempted

\* -s after the -f of a failing file: no warning, and exec() is called.
C8_Witness ==
    /\ pc = "replaced"
    /\ Len(args) = 4
    /\ args[1] = TokF /\ args[2] = TokA /\ args[3] = TokS
    /\ ~Loadable(fs[TokA])
    /\ diag = <<>>
    /\ execCall[1].program = args[4]

(***************************************************************************)
(* C9: a run that has ended has ended in one of: Help (usage, exit 0); a   *)
(* usage error (the error, then the usage text, exit 1); exec() failed     *)
(* (the error without usage text, exit 1); the process was replaced (no    *)
(* exit code of the launcher).  Exit code 0 is given on Help only.         *)
(***************************************************************************)
C9_TerminalOutcomes ==
    /\ Len(exit) <= 1
    /\ pc # "exited" => exit = <<>>
    /\ pc = "replaced" => result.kind = "Config" /\ ExecAttempted
    /\ pc = "exited" =>
          \/ /\ result = Help
             /\ exit = <<0>>
             /\ diag = <<UsageText>>
             /\ ~ExecAttempted
          \/ /\ result \in {ParseErr(TrailingF), ParseErr(NoCommand)}
             /\ exit = <<1>>
             /\ diag = <<ErrorLine(result.msg), BlankLine, UsageText>>
             /\ ~ExecAttempted
          \/ /\ result.kind = "Config"
             /\ ExecAttempted
             /\ exit = <<1>>
             /\ diag # <<>>
             /\ diag[Len(diag)] = ErrorLine(ExecError)
             /\ SelectSeq(diag, IsUsage) = <<>>
    /\ exit = <<0>> => result = Help

\* exec() has failed after a warning: exit code 1, no usage text.
C9_Witness ==
    /\ pc = "exited"
    /\ result.kind = "Config"
    /\ Len(diag) = 2
    /\ IsWarning(diag[1])
    /\ diag[2] = ErrorLine(ExecError)
    /\ exit = <<1>>

(***************************************************************************)
(* C10: when the scan meets -f as the last argument, the outcome is the    *)
(* "Trailing -f" usage error, whatever was parsed before, and not "no      *)
(* command"; when an argument follows the -f, it is appended to files and  *)
(* the scan goes on after it.                                              *)
(***************************************************************************)
C10_TrailingF ==
    /\ TrailingFReached(args) =>
          /\ pc \in {"scan", "dispatch", "exited"}
          /\ pc # "scan" => result = ParseErr(TrailingF)
          /\ pc = "exited" =>
                /\ exit = <<1>>
                /\ diag = <<ErrorLine(TrailingF), BlankLine, UsageText>>
    /\ \A i \in 1..(pos - 1) :
          (args[i] = TokF /\ i < Len(args) /\ ScannedAt(args, i)) =>
              /\ pos >= i + 2
              /\ \E j \in 1..Len(files) : files[j] = args[i + 1]
              /\ (pc = "scan" /\ pos = i + 2) => files[Len(files)] = args[i + 1]

\* The usage error for a trailing -f after -s and a file.
C10_Witness ==
    /\ args = <<TokS, TokFEqA, TokF>>
    /\ pc = "exited"
    /\ result = ParseErr(TrailingF)
    /\ silent
    /\ files = <<TokA>>
    /\ exit = <<1>>

(***************************************************************************)
(* C11: a Config always has a command of at least one argument: when the   *)
(* whole argument vector is a flag prefix (the scan ends with nothing      *)
(* left, without Help and without a trailing -f), the outcome is the "no   *)
(* command" usage error and exec() is never called; when exec() is called, *)
(* its program is the first element of a non-empty command.                *)
(***************************************************************************)
C11_CommandNeverEmpty ==
    /\ result.kind = "Config" => Len(command) >= 1
    /\ result.kind # "Config" => ~ExecAttempted
    /\ (ParseReturned /\ IsFlagPrefix(args, Len(args))) =>
          /\ result = ParseErr(NoCommand)
          /\ pc \in {"dispatch", "exited"}
          /\ pc = "exited" =>
                /\ exit = <<1>>
                /\ diag = <<ErrorLine(NoCommand), BlankLine, UsageText>>
    /\ ExecAttempted =>
          /\ Len(command) >= 1
          /\ execCall[1].program = command[1]
          /\ Len(execCall[1].args) = Len(command) - 1

\* Flags and a file, and nothing after them: the usage error.
C11_Witness ==
    /\ args = <<TokS, TokF, TokA>>
    /\ pc = "exited"
    /\ result = ParseErr(NoCommand)
    /\ command = <<>>
    /\ exit = <<1>>

(***************************************************************************)
(* C12: the image that replaces the launcher is the program command[0]     *)
(* with the arguments command[1..] in order; its environment has every     *)
(* inherited variable that is no key of the map unchanged, every key of    *)
(* the map with the map's value, and nothing else; when no file could be   *)
(* loaded it is exactly the inherited environment.                         *)
(***************************************************************************)
C12_ChildEnvironment ==
    /\ image # <<>> <=> pc = "replaced"
    /\ pc = "replaced" =>
          LET env == image[1].env
          IN  /\ image[1].program = command[1]
              /\ image[1].args = SubSeq(command, 2, Len(command))
              /\ DOMAIN env = DOMAIN environ \cup DOMAIN map
              /\ \A n \in DOMAIN environ \ DOMAIN map : env[n] = environ[n]
              /\ \A k \in DOMAIN map : env[k] = map[k]
              /\ (\A i \in 1..Len(files) : ~Loadable(fs[files[i]]))
                    => env = environ

\* The inherited X is overridden, Y is added and the inherited H is passed
\* on, to a command with one argument.
C12_Witness ==
    /\ pc = "replaced"
    /\ environ = [n \in {"X", "H"} |-> IF n = "X" THEN "0" ELSE "h"]
    /\ map = [k \in {"X", "Y"} |-> IF k = "X" THEN "2" ELSE "1"]
    /\ image[1].env = [n \in {"X", "Y", "H"} |->
                          IF n = "X" THEN "2" ELSE IF n = "Y" THEN "1" ELSE "h"]
    /\ command = <<TokA, TokS>>
    /\ image[1].program = TokA
    /\ image[1].args = <<TokS>>

(***************************************************************************)
(* Decimal notation: the digits of a natural number, most significant      *)
(* first, and how many of them there are without leading zeros.            *)
(***************************************************************************)
DecimalDigits == <<"0", "1", "2", "3", "4", "5", "6", "7", "8", "9">>

RECURSIVE Decimal(_)
Decimal(n) == IF n <= 9 THEN DecimalDigits[n + 1]
              ELSE Decimal(n \div 10) \o DecimalDigits[(n % 10) + 1]

RECURSIVE DigitCount(_)
DigitCount(n) == IF n <= 9 THEN 1 ELSE 1 + DigitCount(n \div 10)

Magnitude(n) == IF n < 0 THEN 0 - n ELSE n

\* The fields of the document at path p, when it is a table.
FieldsAt(p) == IF fs[p].kind = "table" THEN DOMAIN fs[p].table ELSE {}

(***************************************************************************)
(* C13: for every value of every document, stringify gives a string        *)
(* exactly when the value is a string, an integer, a float, a boolean or a *)
(* datetime, and the not-representable result for an array or a table; a   *)
(* string is given back unmodified, a boolean as "true" or "false", an     *)
(* integer as its decimal digits without leading zeros, after "-" when it  *)
(* is negative.  After a file was loaded, the map holds that string for    *)
(* each field of the file; a table that is not loaded has an array or a    *)
(* table among its values.                                                 *)
(***************************************************************************)
C13_StringifyTotal ==
    /\ \A p \in FilePaths : \A k \in FieldsAt(p) :
          LET v == fs[p].table[k]
              r == stringify(v)
          IN  /\ r.some <=> v.type \in ScalarTypes
              /\ v.type \in {"Array", "Table"} => r = None
              /\ v.type = "String" => r = Some(v.s)
              /\ v.type = "Boolean" => r.s = (IF v.b THEN "true" ELSE "false")
              /\ v.type = "Integer" =>
                    /\ r.s = (IF v.n < 0 THEN "-" ELSE "") \o Decimal(Magnitude(v.n))
                    /\ Len(r.s) = DigitCount(Magnitude(v.n))
                                     + (IF v.n < 0 THEN 1 ELSE 0)
              /\ v.type \in {"Float", "Datetime"} => Len(r.s) >= 1
    /\ (pc = "merge" /\ idx >= 1 /\ Loadable(fs[files[idx]])) =>
          \A k \in FieldsAt(files[idx]) :
              /\ k \in DOMAIN map
              /\ map[k] = stringify(fs[files[idx]].table[k]).s
    /\ (pc = "merge" /\ idx >= 1 /\ fs[files[idx]].kind = "table"
          /\ ~Loadable(fs[files[idx]])) =>
          \E k \in FieldsAt(files[idx]) :
              fs[files[idx]].table[k].type \in {"Array", "Table"}

\* A file with the negative two-digit integer X = -12 has been loaded.
C13_Witness ==
    /\ pc = "merge"
    /\ idx = 1
    /\ files = <<TokA>>
    /\ fs[TokA] = TableDoc([k \in {"X"} |-> IntVal(0 - 12)])
    /\ map = [k \in {"X"} |-> "-12"]

\* The strings of the model in which the character U+0000 occurs.
HasNul(s) == s \in {NulChar, WithNul}

(***************************************************************************)
(* C14: every key of the map given to exec() is a non-empty string without *)
(* the character U+0000, and every value is a string without it.           *)
(* add_field copies the field name and the string as they are in the       *)
(* document, so this is violated by a document with the field "" or with   *)
(* the string "a\u0000b".                                                  *)
(***************************************************************************)
C14_EnvMapWellFormed ==
    ExecAttempted =>
        \A k \in DOMAIN execCall[1].envs :
            /\ k # ""
            /\ ~HasNul(k)
            /\ ~HasNul(execCall[1].envs[k])

\* exec() is called with a value in which U+0000 occurs.
C14_NulValueReachesExec ==
    /\ ExecAttempted
    /\ fs[TokA] = TableDoc([k \in {"X"} |-> StrVal(WithNul)])
    /\ execCall[1].envs = [k \in {"X"} |-> WithNul]

\* exec() is called with the empty variable name.
C14_EmptyKeyReachesExec ==
    /\ ExecAttempted
    /\ "" \in DOMAIN execCall[1].envs

(***************************************************************************)
(* C15: when the scan meets -f and an argument follows, that argument is   *)
(* taken as a path whatever it looks like: in one step it is appended to   *)
(* files and the scan goes on after it, the outcome still open and silent  *)
(* as it was.  So -h, --help and -s after -f are paths (no Help, silent    *)
(* not set), and after `-f -f` the next argument is scanned as a flag or   *)
(* a command.  silent is set only by a -s that the scan met.               *)
(***************************************************************************)
C15_FileTakesNextArgument ==
    /\ [](pc = "scan" =>
            /\ result = Pending
            /\ IsFlagPrefix(args, pos - 1)
            /\ silent <=> \E i \in 1..(pos - 1) :
                             ScannedAt(args, i) /\ args[i] = TokS)
    /\ [][(pc = "scan" /\ pos < Len(args) /\ args[pos] = TokF) =>
            /\ pc' = "scan"
            /\ pos' = pos + 2
            /\ files' = Append(files, args[pos + 1])
            /\ silent' = silent
            /\ result' = Pending]_vars

\* `-f --help -f -s`: two paths, no Help, silent not set.
C15_Witness ==
    /\ args = <<TokF, TokHelp, TokF, TokS>>
    /\ pc = "exited"
    /\ files = <<TokHelp, TokS>>
    /\ ~silent
    /\ result = ParseErr(NoCommand)

\* The stage at which loading a file with content c fails: 1 reading,
\* 2 parsing, 3 the top level, 4 the coercion of a field; 0 when none does.
FailingStage(c) ==
    IF c.kind = "unreadable" THEN 1
    ELSE IF c.kind = "invalid" THEN 2
    ELSE IF c.kind = "nontable" THEN 3
    ELSE IF \E k \in DOMAIN c.table : c.table[k].type \notin ScalarTypes THEN 4
    ELSE 0

\* The error is the one of stage n.
IsErrorOfStage(e, n) ==
    \/ n = 1 /\ e = [err |-> "Could not read contents"]
    \/ n = 2 /\ e = [err |-> "Invalid TOML"]
    \/ n = 3 /\ e = [err |-> "Unexpected format"]
    \/ n = 4 /\ DOMAIN e = {"err", "key", "value"}
             /\ e.err = "can't be converted into a string"

(***************************************************************************)
(* C16: an iteration of the merge loop reports the error of the first      *)
(* stage that fails for the file (reading, parsing, top level, coercion)   *)
(* and no other: one warning with that error, or none when silent, and the *)
(* map is left alone.  When no stage fails there is no warning, and the    *)
(* file gives the map exactly one entry per field of its table.            *)
(***************************************************************************)
C16_OneErrorByPrecedence ==
    [][(pc = "merge" /\ idx' = idx + 1) =>
          LET path == files[idx + 1]
              c == fs'[path]
              r == read_env_file(c)
          IN  IF FailingStage(c) = 0
              THEN /\ r.ok
                   /\ DOMAIN r.map = DOMAIN c.table
                   /\ DOMAIN map' = DOMAIN map \cup DOMAIN c.table
                   /\ diag' = diag
              ELSE /\ ~r.ok
                   /\ IsErrorOfStage(r.msg, FailingStage(c))
                   /\ \A n \in 1..4 : IsErrorOfStage(r.msg, n) => n = FailingStage(c)
                   /\ map' = map
                   /\ diag' = IF silent THEN diag
                              ELSE Append(diag, WarningLine(path, r.msg))]_vars

\* Two files failed, at the top level and at a coercion, with one warning
\* each; the first one
\* was read again and failed again.
C16_Witness ==
    /\ pc = "merge"
    /\ idx = 3
    /\ files = <<TokA, TokB, TokA>>
    /\ fs[TokA] = NonTable
    /\ fs[TokB] = TableDoc(X1YArray)
    /\ diag = <<WarningLine(TokA, FormatError),
                WarningLine(TokB, CoercionError("Y", ArrayVal)),
                WarningLine(TokA, FormatError)>>

\* The place in the iteration order of the first field of table t whose
\* value is no scalar.
FirstUnrepresentable(t) ==
    CHOOSE i \in 1..Len(KeyOrder) :
        /\ KeyOrder[i] \in DOMAIN t
        /\ t[KeyOrder[i]].type \notin ScalarTypes
        /\ \A j \in 1..(i - 1) :
              KeyOrder[j] \in DOMAIN t => t[KeyOrder[j]].type \in ScalarTypes

(***************************************************************************)
(* C17: when one or more fields of a file are not representable, the error *)
(* of the file names the first of them in iteration order, with its value; *)
(* an error given to add_field comes back unchanged, whatever the field;   *)
(* the warning of the file carries that error and the map is left as it    *)
(* was before the file.                                                    *)
(***************************************************************************)
C17_FirstFailureNamed ==
    (pc = "merge" /\ idx >= 1 /\ HasUnrepresentable(fs[files[idx]])) =>
        LET t == fs[files[idx]].table
            k == KeyOrder[FirstUnrepresentable(t)]
            e == Err(CoercionError(k, t[k]))
        IN  /\ read_env_file(fs[files[idx]]) = e
            /\ \A f \in DOMAIN t : add_field(e, f, t[f]) = e
            /\ ~silent => diag[Len(diag)] = WarningLine(files[idx], e.msg)
            /\ idx = 1 => map = EmptyMap

\* X is a table and Y an array: the warning names X.
C17_Witness ==
    /\ pc = "merge"
    /\ idx = 1
    /\ files = <<TokA>>
    /\ fs[TokA] = TableDoc([k \in {"X", "Y"} |->
                               IF k = "X" THEN TableVal ELSE ArrayVal])
    /\ diag = <<WarningLine(TokA, CoercionError("X", TableVal))>>
    /\ map = EmptyMap

(***************************************************************************)
(* C18: as long as parse_args has not returned a Config, and for good when *)
(* it returned Help or a usage error, nothing of the merge has happened:   *)
(* no file was read, whatever paths -f has put in files, no warning was    *)
(* written, the map was not built, and exec() was not called.              *)
(***************************************************************************)
C18_NothingWithoutConfig ==
    result.kind # "Config" =>
        /\ pc \in {"scan", "collect", "dispatch", "exited"}
        /\ reads = <<>>
        /\ \A p \in Paths : fs[p] = Unread
        /\ \A i \in 1..Len(diag) : ~IsWarning(diag[i])
        /\ idx = 0
        /\ map = EmptyMap
        /\ execCall = <<>>
        /\ image = <<>>
        /\ pc = "exited" => exit = (IF result.kind = "Help" THEN <<0>> ELSE <<1>>)

\* A trailing -f after two files: the usage error, and no file was read.
C18_Witness ==
    /\ args = <<TokFEqA, TokF, TokA, TokF>>
    /\ pc = "exited"
    /\ result = ParseErr(TrailingF)
    /\ files = <<TokA, TokA>>
    /\ ~silent
    /\ reads = <<>>
    /\ fs[TokA] = Unread
    /\ diag = <<ErrorLine(TrailingF), BlankLine, UsageText>>

(***************************************************************************)
(* C19: after a Config, the paths read so far are the first idx paths of   *)
(* files, in their order and one read per occurrence; exec() is called at  *)
(* most once, only when every path of files has been read, with the map as *)
(* it is then; once it has been called, no file is read, no warning is     *)
(* written and the map does not change.                                    *)
(***************************************************************************)
C19_LoadOrderThenExec ==
    /\ [](/\ Len(execCall) <= 1
          /\ ConfigReturned =>
                /\ idx <= Len(files)
                /\ reads = SubSeq(files, 1, idx)
          /\ ExecAttempted =>
                /\ pc \in {"replaced", "exited"}
                /\ reads = files
                /\ \A i \in 1..Len(diag) : IsWarning(diag[i]) => i <= Len(files)
          /\ (ConfigReturned /\ Terminated) => ExecAttempted)
    /\ [][/\ (pc = "merge" /\ idx' = idx + 1) =>
                /\ reads' = Append(reads, files[idx + 1])
                /\ fs'[files[idx + 1]] # Unread
                /\ \A p \in Paths \ {files[idx + 1]} : fs'[p] = fs[p]
          /\ (~ExecAttempted /\ ExecAttempted') =>
                /\ idx = Len(files)
                /\ execCall'[1].envs = map
                /\ reads' = reads /\ fs' = fs /\ map' = map
                /\ \A i \in 1..Len(diag') : IsWarning(diag'[i]) => i <= Len(diag)
          /\ ExecAttempted =>
                /\ execCall' = execCall /\ reads' = reads /\ fs' = fs
                /\ diag' = diag /\ map' = map]_vars

\* The path a is given twice with another one in between, and is read
\* twice; then exec() is called.
C19_Witness ==
    /\ pc = "replaced"
    /\ files = <<TokA, TokB, TokA>>
    /\ reads = <<TokA, TokB, TokA>>
    /\ Len(execCall) = 1
    /\ Len(diag) = 1
    /\ IsWarning(diag[1])

\* The arguments before position p that the scan met as flags, and those
\* that it took as the path of a -f before them.
FlagArgs(p) == {i \in 1..(p - 1) : ScannedAt(args, i)}
PathArgs(p) == {i \in 2..(p - 1) : ScannedAt(args, i - 1) /\ args[i - 1] = TokF}

(***************************************************************************)
(* C20: parse_args returns, with Help, an error or a Config, and what it   *)
(* returned stays.  An iteration that goes on scanning has consumed one    *)
(* argument for -s and -f=PATH and two for -f PATH, and never goes past    *)
(* the end.  The arguments consumed are each a flag or the path of the -f  *)
(* before it, never both; files has one path per -f and -f=PATH consumed;  *)
(* on a Config the command is all the other arguments.                     *)
(***************************************************************************)
C20_ParseTerminates ==
    /\ <>ParseReturned
    /\ [](/\ pos \in 1..(Len(args) + 1)
          /\ ~ParseReturned => result = Pending
          /\ ParseReturned => result.kind \in {"Help", "Err", "Config"}
          /\ pc \in {"scan", "collect", "dispatch"} =>
                /\ FlagArgs(pos) \cap PathArgs(pos) = {}
                /\ FlagArgs(pos) \cup PathArgs(pos) = 1..(pos - 1)
                /\ Len(files) = Cardinality(PathArgs(pos))
                      + Cardinality({i \in FlagArgs(pos) : HasFEqPrefix(args[i])})
                /\ result.kind = "Config" =>
                      /\ command = SubSeq(args, pos, Len(args))
                      /\ Len(command) = Len(args) - (pos - 1))
    /\ [][/\ (pc = "scan" /\ pc' = "scan") =>
                /\ pos <= Len(args)
                /\ args[pos] = TokS \/ HasFEqPrefix(args[pos]) => pos' = pos + 1
                /\ args[pos] = TokF => pos' = pos + 2
                /\ pos' > pos
          /\ ParseReturned => (ParseReturned' /\ result' = result)]_vars

\* Every argument of `-s -f a --` was consumed once: a flag, a flag and its
\* path, and the command.
C20_Witness ==
    /\ args = <<TokS, TokF, TokA, TokDashDash>>
    /\ pc = "dispatch"
    /\ pos = 4
    /\ result = ConfigResult
    /\ silent
    /\ files = <<TokA>>
    /\ command = <<TokDashDash>>

====
